---- MODULE Spec2Model ----
(***************************************************************************)
(* Model of Logger (src/Logger.py): the capture session, its two listener  *)
(* threads and the API thread.                                             *)
(*                                                                         *)
(* Threads.  start() creates one keyboard listener and one mouse listener; *)
(* each is a thread that calls the handlers.  A listener is identified by  *)
(* the ordinal of the start() call that created it (1..MaxStarts).  The    *)
(* API thread calls start/stop/set_filter.  stop() is executed statement   *)
(* by statement, by the API thread (caller 0) or by keyboard listener      *)
(* thread i (caller i, from the hotkey branch of _on_press).               *)
(*                                                                         *)
(* Listener library behaviour assumed (pynput): Listener.stop() signals    *)
(* the listener and returns without joining its thread; after it no new    *)
(* event is delivered, a handler already running runs to its end; a        *)
(* handler that returns False, or lets an exception escape, ends its       *)
(* listener.                                                               *)
(*                                                                         *)
(* log counts the logging calls made, per kind of line.                    *)
(*                                                                         *)
(* export_statistics is called from a thread of its own (any caller        *)
(* thread but the one that calls set_filter), and json.dump reads the      *)
(* filters one key at a time, in the dict's order, while set_filter runs.  *)
(***************************************************************************)
EXTENDS Integers, FiniteSets, Sequences, TLC

\* ---- bounds ----
MaxStarts == 2
MaxEvents == 2
MaxCalls == 3

\* ---- values ----
None == 0
Ids == 1..MaxStarts
API == 0
Keys == {"a", "Key.esc", "Key.f12"}
StopKeys == {"Key.esc", "Key.f12"}
Buttons == {"left", "right"}
FilterNames == {"keyboard", "keyboard_release", "mouse_move", "mouse_click", "mouse_scroll", "bogus"}
StartOutcomes == {"ok", "kb_start_raises", "ms_start_raises"}
EventLines == {"KEYBOARD_pressed", "KEYBOARD_released", "MOUSE_moved", "MOUSE_button_pressed", "MOUSE_button_released", "MOUSE_scrolled"}
LogKinds == EventLines \cup {"STOP", "WARNING_running", "WARNING_not_running", "ERROR_press", "ERROR_release", "INFO_started", "INFO_stopped", "STATISTICS", "FILTER", "EXPORT"}

VARIABLES
  is_running,        \* self.is_running
  session_start,     \* self.session_start: None or the ordinal of the start() that set it
  keyboard_listener, \* self.keyboard_listener: None or a listener id
  mouse_listener,    \* self.mouse_listener: None or a listener id
  filters,           \* self.filters: a dict, category -> bool
  stats,             \* self.stats: a dict, counter key -> int
  stop_key,          \* self.stop_key
  stop_on_hotkey,    \* self.stop_on_hotkey
  log,               \* logging calls made so far, per kind of line
  kl,                \* kl[i]: state of keyboard listener i ("none", "created", "running", "stopped")
  ml,                \* ml[i]: state of mouse listener i
  kpc,               \* kpc[i]: where keyboard listener thread i is inside a handler
  mpc,               \* mpc[i]: where mouse listener thread i is inside a handler
  mev,               \* mev[i]: the click event mouse thread i is processing
  kret,              \* kret[i]: how the last handler on keyboard thread i ended
  mret,              \* mret[i]: how the last handler on mouse thread i ended
  spc,               \* spc[t]: the statement of stop() caller t is at ("none" when not in stop())
  aerr,              \* the exception the API thread's last call raised to its caller ("none" if it returned)
  quiesced,          \* TRUE from the return of an API-thread stop() that ran the stop sequence, until the next start()
  events,            \* number of events delivered so far
  calls,             \* number of API calls made so far
  epos,              \* export_statistics: 1 while the file is open for writing, else 0
  edata,             \* export_statistics: stats_data, the part built before the file is opened
  efile,             \* the file at the export's target path
  eseen              \* the values self.filters has had, in order, since the running export opened its file

progVars == <<is_running, session_start, keyboard_listener, mouse_listener, filters, stats, stop_key, stop_on_hotkey, log>>
thrVars == <<kl, ml, kpc, mpc, mev, kret, mret, spc>>
apiVars == <<aerr, quiesced, calls>>
ghostVars == <<events>>
expVars == <<epos, edata, efile, eseen>>
vars == <<progVars, thrVars, apiVars, ghostVars, expVars>>

\* ---- helpers ----
NoClick == [button |-> "left", pressed |-> FALSE]
NoData == [statistics |-> <<>>, duration |-> FALSE]
NoFile == [st |-> "absent", filters |-> <<>>, statistics |-> <<>>, duration |-> FALSE]

Logged(l, kind) == [l EXCEPT ![kind] = @ + 1]

RECURSIVE SumOver(_, _)
SumOver(f, S) == IF S = {} THEN 0 ELSE LET k == CHOOSE x \in S : TRUE IN f[k] + SumOver(f, S \ {k})

\* sum(self.stats.values())
Total(st) == SumOver(st, DOMAIN st)

\* st[key] += 1 on a plain dict: the read of a missing key raises KeyError
HasKey(d, key) == key \in DOMAIN d
Increment(st, key) == [st EXCEPT ![key] = @ + 1]

\* ---- Logger.__init__ ----
Init ==
  /\ is_running = FALSE
  /\ stats = <<>>
  /\ session_start = None
  /\ keyboard_listener = None
  /\ mouse_listener = None
  /\ filters = [c \in {"keyboard", "mouse_move", "mouse_click", "mouse_scroll"} |->
                  IF c = "mouse_move" THEN FALSE ELSE TRUE]
  /\ stop_key = "Key.esc"
  /\ stop_on_hotkey = FALSE
  /\ log = [k \in LogKinds |-> 0]
  /\ kl = [i \in Ids |-> "none"]
  /\ ml = [i \in Ids |-> "none"]
  /\ kpc = [i \in Ids |-> "idle"]
  /\ mpc = [i \in Ids |-> "idle"]
  /\ mev = [i \in Ids |-> NoClick]
  /\ kret = [i \in Ids |-> "none"]
  /\ mret = [i \in Ids |-> "none"]
  /\ spc = [t \in {API} \cup Ids |-> "none"]
  /\ aerr = "none"
  /\ quiesced = FALSE
  /\ events = 0
  /\ calls = 0
  /\ epos = 0
  /\ edata = NoData
  /\ efile = NoFile
  /\ eseen = <<>>

\* start() without its "already running" guard: a second start() opens a session over the first.
start_unguarded(outcome) ==
  /\ spc[API] = "none"
  /\ calls < MaxCalls
  /\ calls' = calls + 1
  /\ session_start < MaxStarts
  /\ LET id == session_start + 1 IN
       /\ is_running' = TRUE
       /\ session_start' = id
       /\ log' = Logged(log, "INFO_started")
       /\ keyboard_listener' = id
       /\ mouse_listener' = id
       /\ kl' = [kl EXCEPT ![id] = IF outcome = "kb_start_raises" THEN "created" ELSE "running"]
       /\ ml' = [ml EXCEPT ![id] = IF outcome = "ok" THEN "running" ELSE "created"]
       /\ aerr' = IF outcome = "ok" THEN "none" ELSE "RuntimeError"
       /\ quiesced' = FALSE
  /\ UNCHANGED <<filters, stats, stop_key, stop_on_hotkey>>
  /\ UNCHANGED <<kpc, mpc, mev, kret, mret, spc>>
  /\ UNCHANGED ghostVars
  /\ UNCHANGED expVars

\* ---- Logger.start ----
\* A listener whose start() went through runs; the outcome names the statement
\* of start() that raises, if one does.
start(outcome) ==
  /\ spc[API] = "none"
  /\ calls < MaxCalls
  /\ calls' = calls + 1
  /\ IF is_running
       THEN /\ log' = Logged(log, "WARNING_running")
            /\ aerr' = "none"
            /\ UNCHANGED <<is_running, session_start, keyboard_listener, mouse_listener, kl, ml, quiesced>>
       ELSE /\ session_start < MaxStarts
            /\ LET id == session_start + 1 IN
                 /\ is_running' = TRUE
                 /\ session_start' = id
                 /\ log' = Logged(log, "INFO_started")
                 /\ keyboard_listener' = id
                 /\ mouse_listener' = id
                 /\ kl' = [kl EXCEPT ![id] = IF outcome = "kb_start_raises" THEN "created" ELSE "running"]
                 /\ ml' = [ml EXCEPT ![id] = IF outcome = "ok" THEN "running" ELSE "created"]
                 /\ aerr' = IF outcome = "ok" THEN "none" ELSE "RuntimeError"
                 /\ quiesced' = FALSE
  /\ UNCHANGED <<filters, stats, stop_key, stop_on_hotkey>>
  /\ UNCHANGED <<kpc, mpc, mev, kret, mret, spc>>
  /\ UNCHANGED ghostVars
  /\ UNCHANGED expVars

\* ---- Logger.stop, statement by statement, run by caller t ----
\* What the end of stop() means for its caller: the API thread is back from the
\* call; the keyboard thread returns False from _on_press, which ends its listener.
StopReturns(t, ran) ==
  /\ spc' = [spc EXCEPT ![t] = "none"]
  /\ IF t = API
       THEN /\ quiesced' = (ran \/ quiesced)
            /\ aerr' = "none"
            /\ UNCHANGED <<kpc, kret>>
       ELSE /\ kpc' = [kpc EXCEPT ![t] = "idle"]
            /\ kret' = [kret EXCEPT ![t] = "False"]
            /\ UNCHANGED <<quiesced, aerr>>

\* if not self.is_running: warning, return
stop_check(t) ==
  /\ IF t = API
       THEN /\ spc[API] = "none"
            /\ calls < MaxCalls
            /\ calls' = calls + 1
       ELSE /\ spc[t] = "check"
            /\ UNCHANGED calls
  /\ IF ~is_running
       THEN /\ log' = Logged(log, "WARNING_not_running")
            /\ StopReturns(t, FALSE)
            /\ kl' = IF t = API THEN kl ELSE [kl EXCEPT ![t] = "stopped"]
       ELSE /\ spc' = [spc EXCEPT ![t] = "set"]
            /\ UNCHANGED <<log, quiesced, aerr, kpc, kret, kl>>
  /\ UNCHANGED <<is_running, session_start, keyboard_listener, mouse_listener, filters, stats, stop_key, stop_on_hotkey>>
  /\ UNCHANGED <<ml, mpc, mev, mret>>
  /\ UNCHANGED ghostVars
  /\ UNCHANGED expVars

\* stop() that forgets to clear is_running.
stop_set_forgets(t) ==
  /\ spc[t] = "set"
  /\ spc' = [spc EXCEPT ![t] = "kb"]
  /\ UNCHANGED progVars
  /\ UNCHANGED <<kl, ml, kpc, mpc, mev, kret, mret>>
  /\ UNCHANGED apiVars
  /\ UNCHANGED ghostVars
  /\ UNCHANGED expVars

\* self.is_running = False
stop_set(t) ==
  /\ spc[t] = "set"
  /\ is_running' = FALSE
  /\ spc' = [spc EXCEPT ![t] = "kb"]
  /\ UNCHANGED <<session_start, keyboard_listener, mouse_listener, filters, stats, stop_key, stop_on_hotkey, log>>
  /\ UNCHANGED <<kl, ml, kpc, mpc, mev, kret, mret>>
  /\ UNCHANGED apiVars
  /\ UNCHANGED ghostVars
  /\ UNCHANGED expVars

\* Listener.stop(): a signal, no join
Stopped(l, id) == IF id = None THEN l ELSE [l EXCEPT ![id] = "stopped"]

\* stop() that joins the keyboard listener thread after signalling it: the caller
\* waits until that thread is out of its handler, for ever if it is that thread.
stop_kb_joins(t) ==
  /\ spc[t] = "kb"
  /\ keyboard_listener # None => (keyboard_listener # t /\ kpc[keyboard_listener] = "idle")
  /\ kl' = Stopped(kl, keyboard_listener)
  /\ spc' = [spc EXCEPT ![t] = "ms"]
  /\ UNCHANGED progVars
  /\ UNCHANGED <<ml, kpc, mpc, mev, kret, mret>>
  /\ UNCHANGED apiVars
  /\ UNCHANGED ghostVars
  /\ UNCHANGED expVars

\* if self.keyboard_listener: self.keyboard_listener.stop()
stop_kb(t) ==
  /\ spc[t] = "kb"
  /\ kl' = Stopped(kl, keyboard_listener)
  /\ spc' = [spc EXCEPT ![t] = "ms"]
  /\ UNCHANGED progVars
  /\ UNCHANGED <<ml, kpc, mpc, mev, kret, mret>>
  /\ UNCHANGED apiVars
  /\ UNCHANGED ghostVars
  /\ UNCHANGED expVars

\* if self.mouse_listener: self.mouse_listener.stop()
stop_ms(t) ==
  /\ spc[t] = "ms"
  /\ ml' = Stopped(ml, mouse_listener)
  /\ spc' = [spc EXCEPT ![t] = "log"]
  /\ UNCHANGED progVars
  /\ UNCHANGED <<kl, kpc, mpc, mev, kret, mret>>
  /\ UNCHANGED apiVars
  /\ UNCHANGED ghostVars
  /\ UNCHANGED expVars

\* ---- Logger._log_statistics ----
log_statistics(l) == IF session_start # None THEN Logged(l, "STATISTICS") ELSE l

\* self._log_statistics(); "[INFO] Logger stopped."; return
stop_log(t) ==
  /\ spc[t] = "log"
  /\ log' = Logged(log_statistics(log), "INFO_stopped")
  /\ StopReturns(t, TRUE)
  /\ kl' = IF t = API THEN kl ELSE [kl EXCEPT ![t] = "stopped"]
  /\ UNCHANGED <<is_running, session_start, keyboard_listener, mouse_listener, filters, stats, stop_key, stop_on_hotkey>>
  /\ UNCHANGED <<ml, mpc, mev, mret>>
  /\ UNCHANGED calls
  /\ UNCHANGED ghostVars
  /\ UNCHANGED expVars

\* ---- the handlers ----
\* if not self.filters[category]: return   (a missing category raises KeyError)
Gate(category) ==
  IF ~HasKey(filters, category) THEN "KeyError"
  ELSE IF filters[category] THEN "pass" ELSE "drop"

\* the listener thread delivers one event at a time, while its listener runs
KbDelivers(i) == kl[i] = "running" /\ kpc[i] = "idle" /\ events < MaxEvents
MsDelivers(i) == ml[i] = "running" /\ mpc[i] = "idle" /\ events < MaxEvents

\* the counter written as self.stats[key] = self.stats.get(key, 0) - 1: it counts down.
CountCaught_decrements(key, errorLine, l) ==
  /\ stats' = [k \in DOMAIN stats \cup {key} |-> IF k = key THEN (IF HasKey(stats, key) THEN stats[key] ELSE 0) - 1 ELSE stats[k]]
  /\ log' = l

\* self.stats[key] += 1 inside try/except Exception: the KeyError is logged as an error
CountCaught(key, errorLine, l) ==
  IF HasKey(stats, key)
    THEN /\ stats' = Increment(stats, key)
         /\ log' = l
    ELSE /\ stats' = stats
         /\ log' = Logged(l, errorLine)

\* _on_press without the 'keyboard' filter gate: every press that is no hotkey match is processed.
on_press_ungated(i, key) ==
  /\ KbDelivers(i)
  /\ events' = events + 1
  /\ UNCHANGED expVars
  /\ IF stop_on_hotkey /\ key = stop_key
       THEN /\ log' = Logged(log, "STOP")
            /\ kpc' = [kpc EXCEPT ![i] = "stop"]
            /\ spc' = [spc EXCEPT ![i] = "check"]
            /\ UNCHANGED kret
       ELSE /\ kpc' = [kpc EXCEPT ![i] = "press_body"]
            /\ UNCHANGED <<log, kret, spc>>
  /\ UNCHANGED <<is_running, session_start, keyboard_listener, mouse_listener, filters, stats, stop_key, stop_on_hotkey>>
  /\ UNCHANGED <<kl, ml, mpc, mev, mret>>
  /\ UNCHANGED apiVars

\* _on_press with the filter gate ahead of the hotkey check.
on_press_gate_first(i, key) ==
  /\ KbDelivers(i)
  /\ events' = events + 1
  /\ UNCHANGED expVars
  /\ IF ~filters["keyboard"]
       THEN /\ kret' = [kret EXCEPT ![i] = "None"]
            /\ UNCHANGED <<log, kpc, spc>>
       ELSE IF stop_on_hotkey /\ key = stop_key
         THEN /\ log' = Logged(log, "STOP")
              /\ kpc' = [kpc EXCEPT ![i] = "stop"]
              /\ spc' = [spc EXCEPT ![i] = "check"]
              /\ UNCHANGED kret
         ELSE /\ kpc' = [kpc EXCEPT ![i] = "press_body"]
              /\ UNCHANGED <<log, kret, spc>>
  /\ UNCHANGED <<is_running, session_start, keyboard_listener, mouse_listener, filters, stats, stop_key, stop_on_hotkey>>
  /\ UNCHANGED <<kl, ml, mpc, mev, mret>>
  /\ UNCHANGED apiVars

\* ---- Logger._on_press: hotkey check and filter gate ----
on_press(i, key) ==
  /\ KbDelivers(i)
  /\ events' = events + 1
  /\ UNCHANGED expVars
  /\ IF stop_on_hotkey /\ key = stop_key
       THEN /\ log' = Logged(log, "STOP")
            /\ kpc' = [kpc EXCEPT ![i] = "stop"]
            /\ spc' = [spc EXCEPT ![i] = "check"]
            /\ UNCHANGED kret
       ELSE IF ~filters["keyboard"]
         THEN /\ kret' = [kret EXCEPT ![i] = "None"]
              /\ UNCHANGED <<log, kpc, spc>>
         ELSE /\ kpc' = [kpc EXCEPT ![i] = "press_body"]
              /\ UNCHANGED <<log, kret, spc>>
  /\ UNCHANGED <<is_running, session_start, keyboard_listener, mouse_listener, filters, stats, stop_key, stop_on_hotkey>>
  /\ UNCHANGED <<kl, ml, mpc, mev, mret>>
  /\ UNCHANGED apiVars

\* ---- Logger._on_press: the try block ----
on_press_body(i) ==
  /\ kpc[i] = "press_body"
  /\ CountCaught("keyboard_press", "ERROR_press", Logged(log, "KEYBOARD_pressed"))
  /\ kpc' = [kpc EXCEPT ![i] = "idle"]
  /\ kret' = [kret EXCEPT ![i] = "None"]
  /\ UNCHANGED <<is_running, session_start, keyboard_listener, mouse_listener, filters, stop_key, stop_on_hotkey>>
  /\ UNCHANGED <<kl, ml, mpc, mev, mret, spc>>
  /\ UNCHANGED apiVars
  /\ UNCHANGED ghostVars
  /\ UNCHANGED expVars

\* ---- Logger._on_release ----
on_release(i, key) ==
  /\ KbDelivers(i)
  /\ events' = events + 1
  /\ UNCHANGED expVars
  /\ LET g == Gate("keyboard_release") IN
       /\ IF g = "pass"
            THEN CountCaught("keyboard_release", "ERROR_release", Logged(log, "KEYBOARD_released"))
            ELSE UNCHANGED <<stats, log>>
       /\ kret' = [kret EXCEPT ![i] = IF g = "KeyError" THEN "raised" ELSE "None"]
       /\ kl' = [kl EXCEPT ![i] = IF g = "KeyError" THEN "stopped" ELSE @]
  /\ UNCHANGED <<is_running, session_start, keyboard_listener, mouse_listener, filters, stop_key, stop_on_hotkey>>
  /\ UNCHANGED <<ml, kpc, mpc, mev, mret, spc>>
  /\ UNCHANGED apiVars

\* A mouse handler's gate: dropped, or on to the handler's body
MouseGate(i, category, body) ==
  /\ MsDelivers(i)
  /\ events' = events + 1
  /\ UNCHANGED expVars
  /\ LET g == Gate(category) IN
       /\ mpc' = [mpc EXCEPT ![i] = IF g = "pass" THEN body ELSE "idle"]
       /\ mret' = [mret EXCEPT ![i] = IF g = "pass" THEN @ ELSE IF g = "drop" THEN "None" ELSE "raised"]
       /\ ml' = [ml EXCEPT ![i] = IF g = "KeyError" THEN "stopped" ELSE @]
  /\ UNCHANGED progVars
  /\ UNCHANGED <<kl, kpc, kret, spc>>
  /\ UNCHANGED apiVars

\* self.stats[key] += 1 outside any try: the KeyError leaves the handler and ends the listener
CountUncaught(i, key) ==
  IF HasKey(stats, key)
    THEN /\ stats' = Increment(stats, key)
         /\ mret' = [mret EXCEPT ![i] = "None"]
         /\ ml' = ml
    ELSE /\ stats' = stats
         /\ mret' = [mret EXCEPT ![i] = "raised"]
         /\ ml' = [ml EXCEPT ![i] = "stopped"]

\* A mouse handler's body: the log line, then the counter
MouseBody(i, body, line, key, counts) ==
  /\ mpc[i] = body
  /\ log' = Logged(log, line)
  /\ IF counts
       THEN CountUncaught(i, key)
       ELSE /\ mret' = [mret EXCEPT ![i] = "None"]
            /\ UNCHANGED <<stats, ml>>
  /\ mpc' = [mpc EXCEPT ![i] = "idle"]
  /\ mev' = [mev EXCEPT ![i] = NoClick]
  /\ UNCHANGED <<is_running, session_start, keyboard_listener, mouse_listener, filters, stop_key, stop_on_hotkey>>
  /\ UNCHANGED <<kl, kpc, kret, spc>>
  /\ UNCHANGED apiVars
  /\ UNCHANGED ghostVars
  /\ UNCHANGED expVars

\* ---- Logger._on_move ----
on_move(i) == MouseGate(i, "mouse_move", "move_body") /\ UNCHANGED mev
on_move_body(i) == mpc[i] = "move_body" /\ MouseBody(i, "move_body", "MOUSE_moved", "mouse_move", TRUE)

\* ---- Logger._on_click ----
ButtonKey(button) == IF button = "left" THEN "mouse_click_left" ELSE "mouse_click_right"
on_click(i, button, pressed) ==
  /\ MouseGate(i, "mouse_click", "click_body")
  /\ mev' = [mev EXCEPT ![i] = IF Gate("mouse_click") = "pass" THEN [button |-> button, pressed |-> pressed] ELSE NoClick]
on_click_body(i) == mpc[i] = "click_body" /\ MouseBody(i, "click_body", IF mev[i].pressed THEN "MOUSE_button_pressed" ELSE "MOUSE_button_released", ButtonKey(mev[i].button), mev[i].pressed)

\* ---- Logger._on_scroll ----
on_scroll(i) == MouseGate(i, "mouse_scroll", "scroll_body") /\ UNCHANGED mev
on_scroll_body(i) == mpc[i] = "scroll_body" /\ MouseBody(i, "scroll_body", "MOUSE_scrolled", "mouse_scroll", TRUE)

\* set_filter without the `in self.filters` test: an unknown name becomes a new filter.
set_filter_inserts(filter_name, enabled) ==
  /\ spc[API] = "none"
  /\ calls < MaxCalls
  /\ calls' = calls + 1
  /\ aerr' = "none"
  /\ filters' = [k \in DOMAIN filters \cup {filter_name} |-> IF k = filter_name THEN enabled ELSE filters[k]]
  /\ log' = Logged(log, "FILTER")
  /\ UNCHANGED <<is_running, session_start, keyboard_listener, mouse_listener, stats, stop_key, stop_on_hotkey>>
  /\ UNCHANGED thrVars
  /\ UNCHANGED quiesced
  /\ UNCHANGED ghostVars
  /\ eseen' = IF epos # 0 /\ filters' # filters THEN Append(eseen, filters') ELSE eseen
  /\ UNCHANGED <<epos, edata, efile>>

\* ---- Logger.set_filter ----
set_filter(filter_name, enabled) ==
  /\ spc[API] = "none"
  /\ calls < MaxCalls
  /\ calls' = calls + 1
  /\ aerr' = "none"
  /\ IF HasKey(filters, filter_name)
       THEN /\ filters' = [filters EXCEPT ![filter_name] = enabled]
            /\ log' = Logged(log, "FILTER")
       ELSE UNCHANGED <<filters, log>>
  /\ UNCHANGED <<is_running, session_start, keyboard_listener, mouse_listener, stats, stop_key, stop_on_hotkey>>
  /\ UNCHANGED thrVars
  /\ UNCHANGED quiesced
  /\ UNCHANGED ghostVars
  /\ eseen' = IF epos # 0 /\ filters' # filters THEN Append(eseen, filters') ELSE eseen
  /\ UNCHANGED <<epos, edata, efile>>

\* ---- Logger.export_statistics ----
\* the order of the keys of self.filters (the dict literal of __init__)
FilterOrder == <<"keyboard", "mouse_move", "mouse_click", "mouse_scroll">>

\* json.dump / json.load of a bool
Encode(b) == IF b THEN "true" ELSE "false"
Decode(text) == text = "true"
Parsed(obj) == [k \in DOMAIN obj |-> Decode(obj[k])]

\* stats_data = {...}; open(filename, 'w'): 'statistics' is a copy made now,
\* 'filters' is the dict itself; opening truncates the file (or raises, file untouched)
export_statistics(opens) ==
  /\ epos = 0
  /\ calls < MaxCalls
  /\ calls' = calls + 1
  /\ IF opens
       THEN /\ edata' = [statistics |-> stats, duration |-> session_start # None]
            /\ efile' = [NoFile EXCEPT !.st = "partial"]
            /\ epos' = 1
            /\ eseen' = <<filters>>
       ELSE UNCHANGED <<edata, efile, epos, eseen>>
  /\ UNCHANGED progVars
  /\ UNCHANGED thrVars
  /\ UNCHANGED <<aerr, quiesced>>
  /\ UNCHANGED ghostVars

\* The moments at which json.dump reads the keys of self.filters: one per key,
\* in the dict's order, each a position in eseen, never going back.
ReadMoments ==
  {m \in [1..Len(FilterOrder) -> 1..Len(eseen)] :
     \A j \in 1..(Len(FilterOrder) - 1) : m[j] <= m[j + 1]}

\* json.dump(stats_data, f): every key of 'filters' with the value self.filters
\* had when it was read, then 'statistics'; close; "[Export] ..."; return
export_dump ==
  /\ epos = 1
  /\ \E m \in ReadMoments :
       efile' = [st |-> "complete",
                 filters |-> [k \in DOMAIN filters |->
                               LET j == CHOOSE x \in 1..Len(FilterOrder) : FilterOrder[x] = k
                               IN Encode(eseen[m[j]][k])],
                 statistics |-> edata.statistics,
                 duration |-> edata.duration]
  /\ log' = Logged(log, "EXPORT")
  /\ epos' = 0
  /\ edata' = NoData
  /\ eseen' = <<>>
  /\ UNCHANGED <<is_running, session_start, keyboard_listener, mouse_listener, filters, stats, stop_key, stop_on_hotkey>>
  /\ UNCHANGED thrVars
  /\ UNCHANGED apiVars
  /\ UNCHANGED ghostVars

\* a write raises OSError part-way: the with block closes the file as it is
export_write_fails ==
  /\ epos = 1
  /\ epos' = 0
  /\ edata' = NoData
  /\ eseen' = <<>>
  /\ UNCHANGED efile
  /\ UNCHANGED progVars
  /\ UNCHANGED thrVars
  /\ UNCHANGED apiVars
  /\ UNCHANGED ghostVars

\* ---- the hotkey configuration ----
\* The class defines no enable_hotkey_stop and no set_stop_key: calling either
\* raises AttributeError (as LoggerGUI.update_hotkey_setting does).
MissingMethod ==
  /\ spc[API] = "none"
  /\ calls < MaxCalls
  /\ calls' = calls + 1
  /\ aerr' = "AttributeError"
  /\ UNCHANGED progVars
  /\ UNCHANGED thrVars
  /\ UNCHANGED quiesced
  /\ UNCHANGED ghostVars
  /\ UNCHANGED expVars

enable_hotkey_stop(enabled) == enabled \in BOOLEAN /\ MissingMethod
set_stop_key(key) == key \in StopKeys /\ MissingMethod

\* The configuration is two public attributes, set in __init__; a caller changes
\* them by assignment (logger.stop_on_hotkey = ..., logger.stop_key = ...).
assign_hotkey(enabled, key) ==
  /\ spc[API] = "none"
  /\ calls < MaxCalls
  /\ calls' = calls + 1
  /\ aerr' = "none"
  /\ stop_on_hotkey' = enabled
  /\ stop_key' = key
  /\ UNCHANGED <<is_running, session_start, keyboard_listener, mouse_listener, filters, stats, log>>
  /\ UNCHANGED thrVars
  /\ UNCHANGED quiesced
  /\ UNCHANGED ghostVars
  /\ UNCHANGED expVars

Next ==
  \/ \E o \in StartOutcomes : start(o)
  \/ \E t \in {API} \cup Ids : stop_check(t)
  \/ \E t \in {API} \cup Ids : stop_set(t)
  \/ \E t \in {API} \cup Ids : stop_kb(t)
  \/ \E t \in {API} \cup Ids : stop_ms(t)
  \/ \E t \in {API} \cup Ids : stop_log(t)
  \/ \E i \in Ids, key \in Keys : on_press(i, key)
  \/ \E i \in Ids : on_press_body(i)
  \/ \E i \in Ids, key \in Keys : on_release(i, key)
  \/ \E i \in Ids : on_move(i)
  \/ \E i \in Ids : on_move_body(i)
  \/ \E i \in Ids, b \in Buttons, p \in BOOLEAN : on_click(i, b, p)
  \/ \E i \in Ids : on_click_body(i)
  \/ \E i \in Ids : on_scroll(i)
  \/ \E i \in Ids : on_scroll_body(i)
  \/ \E n \in FilterNames, e \in BOOLEAN : set_filter(n, e)
  \/ \E e \in BOOLEAN : enable_hotkey_stop(e)
  \/ \E k \in StopKeys : set_stop_key(k)
  \/ \E e \in BOOLEAN, k \in StopKeys : assign_hotkey(e, k)
  \/ \E o \in BOOLEAN : export_statistics(o)
  \/ export_dump
  \/ export_write_fails

Spec == Init /\ [][Next]_vars

\* The keyboard listener thread, once inside stop(), keeps being scheduled.
KbStopStep(i) == stop_check(i) \/ stop_set(i) \/ stop_kb(i) \/ stop_ms(i) \/ stop_log(i)
FairSpec == Spec /\ \A i \in Ids : WF_vars(KbStopStep(i))

\* ---- what the claims read ----
Count(key) == IF HasKey(stats, key) THEN stats[key] ELSE 0
EventLog == [k \in EventLines |-> log[k]]
KbIdle == \A i \in Ids : kpc[i] = "idle"
MsIdle == \A i \in Ids : mpc[i] = "idle"
Categories == {"keyboard", "keyboard_release", "mouse_move", "mouse_click", "mouse_scroll"}

\* C1 (as claimed): once the key-press handlers have returned, keyboard_press
\* equals the number of presses that passed the 'keyboard' filter (each of them
\* wrote one "Key pressed" line).
C1_PressCountIsN == KbIdle => Count("keyboard_press") = log["KEYBOARD_pressed"]

\* C2 (as claimed): after the keyboard thread and the pointer thread have each
\* processed events that passed their filters, and all handlers have returned,
\* the sum of the counters equals the number of those events.
C2_NoLostIncrement ==
  (/\ KbIdle /\ MsIdle
   /\ log["KEYBOARD_pressed"] + log["KEYBOARD_released"] >= 1
   /\ log["MOUSE_moved"] + log["MOUSE_button_pressed"] + log["MOUSE_scrolled"] >= 1)
  => Total(stats) = log["KEYBOARD_pressed"] + log["KEYBOARD_released"] + log["MOUSE_moved"]
                    + log["MOUSE_button_pressed"] + log["MOUSE_scrolled"]

C4_QuiescedAfterStop == quiesced => (KbIdle /\ MsIdle)

\* C5: start() while running changes nothing but one "already running" warning;
\* stop() while idle changes nothing but one "not running" warning, writes no
\* statistics summary and returns normally.
C5_RedundantCallsNoOp ==
  [][/\ ((\E o \in StartOutcomes : start(o)) /\ is_running)
          => (/\ log' = Logged(log, "WARNING_running")
              /\ aerr' = "none"
              /\ is_running'
              /\ <<session_start, keyboard_listener, mouse_listener, filters, stats, stop_key, stop_on_hotkey>>'
                   = <<session_start, keyboard_listener, mouse_listener, filters, stats, stop_key, stop_on_hotkey>>
              /\ thrVars' = thrVars)
     /\ (stop_check(API) /\ ~is_running)
          => (/\ log' = Logged(log, "WARNING_not_running")
              /\ aerr' = "none"
              /\ ~is_running'
              /\ <<session_start, keyboard_listener, mouse_listener, filters, stats, stop_key, stop_on_hotkey>>'
                   = <<session_start, keyboard_listener, mouse_listener, filters, stats, stop_key, stop_on_hotkey>>
              /\ thrVars' = thrVars)]_vars

\* Both redundant calls have been made: a start() while running and a stop() while idle.
C5_Witness ==
  /\ log["WARNING_running"] = 1 /\ log["WARNING_not_running"] = 1
  /\ log["INFO_started"] = 1 /\ is_running /\ session_start = 1

\* C6 (as claimed): no handler lets an exception escape to its listener.
C6_NoHandlerRaises == \A i \in Ids : kret[i] # "raised" /\ mret[i] # "raised"

\* C7: a key press that is no stop-hotkey match, delivered while the 'keyboard'
\* filter is disabled, returns at once, changes no counter and writes no line.
C7_DisabledKeyboardDrops ==
  [][\A i \in Ids, key \in Keys :
       (on_press(i, key) /\ ~(stop_on_hotkey /\ key = stop_key) /\ ~filters["keyboard"])
         => (stats' = stats /\ log' = log /\ kpc'[i] = "idle" /\ kret'[i] = "None")]_vars

\* With the 'keyboard' filter disabled, MaxEvents key presses were delivered and all dropped.
C7_Witness ==
  /\ ~filters["keyboard"] /\ events = MaxEvents
  /\ \E i \in Ids : kret[i] = "None" /\ kl[i] = "running"
  /\ \A i \in Ids : mret[i] = "none" /\ mpc[i] = "idle" /\ kret[i] # "raised" /\ kpc[i] = "idle"
  /\ \A k \in EventLines : log[k] = 0
  /\ log["STOP"] = 0

\* How many statements of stop() are still ahead of a caller.
StopRank(pc) == CASE pc = "check" -> 5 [] pc = "set" -> 4 [] pc = "kb" -> 3 [] pc = "ms" -> 2 [] pc = "log" -> 1 [] OTHER -> 0

\* C8: a keyboard listener thread that is handling a stop-key press is never
\* blocked (stop() waits for no thread, its own included): its next statement can
\* always run, every move takes it nearer the end of stop(), and leaving stop()
\* it returns False from the handler; the stop() it runs leaves is_running false
\* on passing the assignment (or on finding the session already stopped).
C8_HotkeyStopNeverBlocks ==
  /\ [](\A i \in Ids : kpc[i] = "stop" => ENABLED KbStopStep(i))
  /\ [][\A i \in Ids : (kpc[i] = "stop" /\ spc'[i] # spc[i])
          => (/\ StopRank(spc'[i]) < StopRank(spc[i])
              /\ (spc'[i] = "none" => (kpc'[i] = "idle" /\ kret'[i] = "False" /\ kl'[i] = "stopped"))
              /\ (spc[i] \in {"check", "set"} /\ spc'[i] \notin {"check", "set"} => ~is_running'))]_vars

\* The same as a progress property, under FairSpec: the handler of a stop-key
\* press eventually returns False, and is_running becomes false once it has called stop().
C8_Liveness ==
  \A i \in Ids :
    /\ (kpc[i] = "stop") ~> (kpc[i] = "idle" /\ kret[i] = "False" /\ kl[i] = "stopped")
    /\ (kpc[i] = "stop" /\ spc[i] = "check") ~> ~is_running

\* A stop-key press made the keyboard thread itself run the stop sequence to its end.
C8_Witness ==
  \E i \in Ids : kret[i] = "False" /\ kl[i] = "stopped" /\ log["STOP"] = 1 /\ log["INFO_stopped"] = 1 /\ log["WARNING_not_running"] = 0 /\ ~quiesced

\* C9 (as claimed): enable_hotkey_stop and set_stop_key can be called without failing.
C9_HotkeyMethodsWork == aerr # "AttributeError"

\* C10 (as claimed): the filter mapping has exactly the five categories, each a boolean.
C10_FiveCategories == DOMAIN filters = Categories /\ \A c \in Categories : filters[c] \in BOOLEAN

CounterKeys == {"keyboard_press", "keyboard_release", "mouse_move", "mouse_click_left", "mouse_click_right", "mouse_scroll"}
Clicks == Count("mouse_click_left") + Count("mouse_click_right")

\* C11: at every step of every operation sequence (handlers, start, stop, hotkey
\* stop, set_filter, export_statistics, a stop followed by another start) every
\* count is a non-negative integer, no count decreases and no counter key is removed.
C11_CountsNeverDecrease ==
  /\ [](\A k \in DOMAIN stats : stats[k] \in Nat)
  /\ [][/\ DOMAIN stats \subseteq DOMAIN stats'
        /\ \A k \in CounterKeys : Count(k)' >= Count(k)]_vars

\* A session was stopped and another started, and a key press was processed past its filter.
C11_Witness ==
  /\ session_start = MaxStarts /\ is_running /\ log["INFO_stopped"] = 1
  /\ log["KEYBOARD_pressed"] = 1 /\ KbIdle

\* C12 (as claimed): what a completed export wrote as 'filters' parses back to a
\* value self.filters had at one instant of the call, 'statistics' to self.stats,
\* and the export changes neither mapping.
C12_ExportIsSnapshot ==
  [][(epos = 1 /\ epos' = 0 /\ efile'.st = "complete")
       => (/\ \E j \in 1..Len(eseen) : Parsed(efile'.filters) = eseen[j]
           /\ efile'.statistics = stats
           /\ filters' = filters /\ stats' = stats)]_vars

\* C13 (as claimed): after start, key presses and pressed clicks, then stop, the
\* statistics hold keyboard_press = number of presses and mouse_click_<b> =
\* number of pressed clicks.
C13_ScenarioCounts ==
  (~is_running /\ log["INFO_stopped"] >= 1 /\ KbIdle /\ MsIdle)
    => (Count("keyboard_press") = log["KEYBOARD_pressed"] /\ Clicks = log["MOUSE_button_pressed"])

\* The part of C13 about the export: an export begun after any start() has a non-null session_duration.
C13_DurationNonNull ==
  [][(epos = 0 /\ epos' = 1 /\ session_start # None) => edata'.duration]_vars

\* C14 (as claimed): after a start() that raised, is_running is false and no
\* listener of that start() is left created or running.
C14_FailedStartLeavesIdle ==
  aerr = "RuntimeError"
    => (~is_running /\ \A i \in Ids : i >= session_start => (kl[i] = "none" /\ ml[i] = "none"))

\* C15: set_filter with an unknown name returns normally and changes nothing at
\* all; with a known name it sets that category's value, logs the change and
\* changes nothing else; the set of filter keys never changes.
C15_SetFilterFrame ==
  [][\A n \in FilterNames, e \in BOOLEAN :
       set_filter(n, e)
         => (/\ aerr' = "none"
             /\ DOMAIN filters' = DOMAIN filters
             /\ IF n \in DOMAIN filters
                  THEN /\ filters'[n] = e
                       /\ \A c \in DOMAIN filters \ {n} : filters'[c] = filters[c]
                       /\ log' = Logged(log, "FILTER")
                  ELSE filters' = filters /\ log' = log
             /\ <<is_running, session_start, keyboard_listener, mouse_listener, stats, stop_key, stop_on_hotkey>>'
                  = <<is_running, session_start, keyboard_listener, mouse_listener, stats, stop_key, stop_on_hotkey>>
             /\ thrVars' = thrVars
             /\ efile' = efile)]_vars

\* set_filter has changed two known categories, and nothing else has happened.
C15_Witness ==
  /\ log["FILTER"] = 2 /\ filters["mouse_move"] /\ ~filters["keyboard"]
  /\ filters["mouse_click"] /\ filters["mouse_scroll"]
  /\ ~is_running /\ session_start = None /\ calls = 2

\* C16: with hotkey-stop enabled, a press of the stop key goes to stop() and
\* logs the warning-level stop line and nothing else, whatever the 'keyboard'
\* filter says; it writes no "Key pressed" line and changes no counter, and the
\* stop() it runs writes no event line either.
C16_HotkeyBeforeFilter ==
  [][\A i \in Ids :
       /\ \A key \in Keys :
            (on_press(i, key) /\ stop_on_hotkey /\ key = stop_key)
              => (log' = Logged(log, "STOP") /\ stats' = stats /\ kpc'[i] = "stop" /\ spc'[i] = "check")
       /\ (kpc[i] = "stop" /\ kpc'[i] # "stop")
              => (log'["KEYBOARD_pressed"] = log["KEYBOARD_pressed"] /\ stats' = stats /\ kret'[i] = "False")]_vars

\* With the 'keyboard' filter disabled, a stop-key press has stopped the session.
C16_Witness ==
  /\ ~filters["keyboard"] /\ ~is_running /\ log["STOP"] = 1 /\ log["INFO_stopped"] = 1
  /\ log["KEYBOARD_pressed"] = 0 /\ log["FILTER"] = 1
  /\ \E i \in Ids : kret[i] = "False"

\* C17 (as claimed): once the handlers have returned, every kind of event has as
\* many log lines as counts: none was logged without being counted.
C17_LoggedIffCounted ==
  (KbIdle /\ MsIdle)
    => (/\ log["KEYBOARD_released"] = Count("keyboard_release")
        /\ log["MOUSE_moved"] = Count("mouse_move")
        /\ log["MOUSE_scrolled"] = Count("mouse_scroll")
        /\ log["MOUSE_button_pressed"] = Clicks
        /\ log["KEYBOARD_pressed"] = Count("keyboard_press"))

\* C18 (as claimed): an event that found its filter enabled when its handler
\* started is logged and counted when the handler ends.
C18_EnabledEventsProcessed ==
  [][\A i \in Ids :
       /\ (mpc[i] = "scroll_body" /\ mpc'[i] = "idle")
            => (log'["MOUSE_scrolled"] = log["MOUSE_scrolled"] + 1 /\ Count("mouse_scroll")' = Count("mouse_scroll") + 1)
       /\ (mpc[i] = "move_body" /\ mpc'[i] = "idle")
            => (log'["MOUSE_moved"] = log["MOUSE_moved"] + 1 /\ Count("mouse_move")' = Count("mouse_move") + 1)
       /\ (kpc[i] = "press_body" /\ kpc'[i] = "idle")
            => (log'["KEYBOARD_pressed"] = log["KEYBOARD_pressed"] + 1 /\ Count("keyboard_press")' = Count("keyboard_press") + 1)]_vars

\* C19 (as claimed): the target path never holds a partially written file.
C19_NoPartialFile == efile.st \in {"absent", "complete"}

\* C20 (as claimed): the stop sequence runs once per session: there are never
\* more statistics summaries or closing banners than sessions started.
C20_OneStopPerSession ==
  /\ log["INFO_stopped"] <= log["INFO_started"]
  /\ log["STATISTICS"] <= log["INFO_started"]

====
